---- MODULE Spec2Model ----
(***************************************************************************)
(* The request core of veloce.client.VeloceClient: the session lifecycle   *)
(* (_ensure_session, close, __aenter__, __aexit__), the retry loop of      *)
(* _request with its status classification and backoff, and health_check. *)
(* Tasks are asyncio tasks sharing one client; a task switches only at an  *)
(* await that really suspends (a request in flight, a backoff sleep, the   *)
(* close of a session).                                                    *)
(***************************************************************************)
EXTENDS Integers, Sequences, FiniteSets, TLC

\* ------------------------------------------------------------ bounds
MaxRetries == 8
ConcRetries == 2
NumTasks == 2
MaxSessions == 3
MaxCalls == 2
ConcCalls == 4
LifeCalls == 4

\* The retry budgets a client is built with: none, the small ones around the
\* default of 3, and one long enough for the backoff to reach its ceiling.
RetryChoices == (0..3) \cup {MaxRetries}

Tasks == 1..NumTasks
SeqTasks == {1}
SessionIds == 1..MaxSessions

\* ------------------------------------------------------------ values
\* Python's None, for a session reference and for a status code.
None == 0

\* JSON values as resp.json() returns them: a mapping (a set of key/value
\* pairs, values written as strings) or a value that is no mapping.
JsonMap(items) == [type |-> "map", items |-> items]
EmptyMap == JsonMap({})
JsonList == [type |-> "list", items |-> {}]
NoResponse == [type |-> "none", items |-> {}]

HasKey(data, key) == \E p \in data.items : p[1] = key

\* Mutant: a get that never finds the key.
GetDefaultOnly(data, key, default) == default

\* dict.get(key, default)
Get(data, key, default) ==
  IF HasKey(data, key) THEN (CHOOSE p \in data.items : p[1] = key)[2] ELSE default

\* An exception object or a returned pair: kind is the class name ("ok" for
\* the returned (status, body) pair), message a sequence of string pieces.
Exc(kind, message, status_code, response) ==
  [kind |-> kind, message |-> message, status_code |-> status_code, response |-> response]

NoExc == Exc("none", <<>>, None, NoResponse)

\* str(e)
Str(e) == e.message

VeloceAPIError(message) == Exc("VeloceAPIError", message, None, NoResponse)

\* Mutant: the first except clause without VeloceAuthError.
NonRetryableWithoutAuth ==
  {"VeloceNotFoundError", "VeloceConflictError", "VeloceValidationError"}

\* except (VeloceAuthError, VeloceNotFoundError, VeloceConflictError, VeloceValidationError)
NonRetryableKinds ==
  {"VeloceAuthError", "VeloceNotFoundError", "VeloceConflictError", "VeloceValidationError"}
VeloceKinds == NonRetryableKinds \cup {"VeloceServerError", "VeloceAPIError"}
TransportKinds == {"ClientError", "TimeoutError"}

\* ------------------------------------------------------------ inputs
\* What the panel can answer: a status and a body on the wire. wire says what
\* reading it as JSON does: "json" decodes to value, "content_type" is a body
\* under a content type that is not JSON, "malformed" a body that does not
\* parse, "read_fault" a connection fault while the body is read.
Statuses == {200, 302, 400, 401, 403, 404, 409, 422, 429, 500, 503}

DetailMap == JsonMap({<<"detail", "name too long">>})
PlainMap == JsonMap({<<"a", "1">>})

Bodies ==
  { [wire |-> "json", value |-> DetailMap],
    [wire |-> "json", value |-> PlainMap],
    [wire |-> "json", value |-> JsonList],
    [wire |-> "content_type", value |-> PlainMap],
    [wire |-> "malformed", value |-> NoResponse],
    [wire |-> "read_fault", value |-> NoResponse] }

Faults ==
  { Exc("ClientError", <<"Cannot connect to host">>, None, NoResponse),
    Exc("ClientError", <<"Server disconnected">>, None, NoResponse),
    Exc("TimeoutError", <<>>, None, NoResponse) }

Response(status, body) == [type |-> "response", status |-> status, body |-> body, exc |-> NoExc]
Fault(e) == [type |-> "fault", status |-> None, body |-> [wire |-> "none", value |-> NoResponse], exc |-> e]

NoOutcome == [type |-> "none", status |-> None, body |-> [wire |-> "none", value |-> NoResponse], exc |-> NoExc]

Outcomes ==
  {Response(s, b) : s \in Statuses, b \in Bodies} \cup {Fault(e) : e \in Faults}

ConcOutcomes ==
  { Response(200, [wire |-> "json", value |-> PlainMap]),
    Response(500, [wire |-> "json", value |-> PlainMap]) }

\* The answers of the lifecycle specification: a success, an error that is
\* not retried, a 400 whose body is no mapping, a server error, a fault.
LifeOutcomes ==
  { Response(200, [wire |-> "json", value |-> PlainMap]),
    Response(401, [wire |-> "json", value |-> DetailMap]),
    Response(400, [wire |-> "json", value |-> JsonList]),
    Response(500, [wire |-> "malformed", value |-> NoResponse]),
    Fault(Exc("ClientError", <<"Server disconnected">>, None, NoResponse)) }

\* The API keys a client is built with.
ApiKeys == {"key-A", "key-B"}

\* ------------------------------------------------------------ _request, the pure parts
\* _get_headers(): the headers of every request, as a set of name/value pairs.
\* Mutant: the headers without the content type.
GetHeadersKeyOnly(key) == {<<"X-API-Key", key>>}

GetHeaders(key) == {<<"X-API-Key", key>>, <<"Content-Type", "application/json">>}

Min(a, b) == IF a < b THEN a ELSE b

\* Mutant: the retry flag ignored.
RetriesIgnoringFlag(retry, mr) == mr

\* retries = self.max_retries if retry else 1
Retries(retry, mr) == IF retry THEN mr ELSE 1

\* Mutant: the backoff without its ceiling.
DelayUncapped(attempt) == 2 ^ attempt

\* delay = min(2 ** attempt, 60)
Delay(attempt) == Min(2 ^ attempt, 60)

\* Mutant: the budget test off by one.
AttemptsRemainOffByOne(attempt, retries) == attempt < retries

\* attempt < retries - 1: another attempt is left in the budget
AttemptsRemain(attempt, retries) == attempt < retries - 1

\* What await resp.json() raises on this body ("none": it returns body.value).
JsonRaises(body) ==
  CASE body.wire = "json" -> "none"
    [] body.wire = "content_type" -> "ContentTypeError"
    [] body.wire = "malformed" -> "JSONDecodeError"
    [] body.wire = "read_fault" -> "ClientPayloadError"

\* Mutant: the body kept when resp.json() has raised.
ResponseDataKeepingBody(body) == body.value

\* response_data after the inner try: the decoded value, or {} under either
\* except clause (ContentTypeError, then any other Exception).
ResponseData(body) ==
  IF JsonRaises(body) = "none" THEN body.value
  ELSE IF JsonRaises(body) = "ContentTypeError" THEN EmptyMap
  ELSE EmptyMap

\* Mutant: a success reported as a 200 whatever the status.
ReturnAs200(status, data) ==
  [ctl |-> "return", exc |-> Exc("ok", <<>>, 200, data), last |-> NoExc, delay |-> 0]

Raise(e) == [ctl |-> "raise", exc |-> e, last |-> NoExc, delay |-> 0]
Return(status, data) ==
  [ctl |-> "return", exc |-> Exc("ok", <<>>, status, data), last |-> NoExc, delay |-> 0]
Continue(last, delay) == [ctl |-> "continue", exc |-> NoExc, last |-> last, delay |-> delay]

\* What response_data.get raises: a decoded value that is no mapping has no
\* get, and the call raises AttributeError.
AttributeError == Exc("AttributeError", <<"object has no attribute 'get'">>, None, NoResponse)

\* The if/elif chain on resp.status, inside the try.
Classify(status, data, attempt, retries) ==
  IF status = 401
  THEN Raise(Exc("VeloceAuthError", <<"Authentication failed. Check API key.">>, 401, data))
  ELSE IF status = 403
  THEN Raise(Exc("VeloceAuthError", <<"Permission denied">>, 403, data))
  ELSE IF status = 404
  THEN Raise(Exc("VeloceNotFoundError", <<"Resource not found">>, 404, data))
  ELSE IF status = 409
  THEN Raise(Exc("VeloceConflictError", <<"Resource already exists">>, 409, data))
  ELSE IF status \in {400, 422}
  THEN IF data.type = "map"
       THEN Raise(Exc("VeloceValidationError", <<Get(data, "detail", "Validation error")>>,
                      status, data))
       ELSE Raise(AttributeError)
  ELSE IF status >= 500
  THEN LET error == Exc("VeloceServerError", <<"Server error">>, status, data)
       IN IF AttemptsRemain(attempt, retries)
          THEN Continue(error, Delay(attempt))
          ELSE Raise(error)
  ELSE Return(status, data)

\* The body of the try: the request, the decoding of the body, the chain.
TryBody(outcome, attempt, retries) ==
  IF outcome.type = "fault"
  THEN Raise(outcome.exc)
  ELSE Classify(outcome.status, ResponseData(outcome.body), attempt, retries)

\* Mutant: the except clauses without the last one (except Exception).
HandleExceptionWithoutCatchAll(e, attempt, retries) ==
  IF e.kind \in NonRetryableKinds THEN Raise(e)
  ELSE IF e.kind = "VeloceServerError" THEN Raise(e)
  ELSE IF e.kind \in TransportKinds
  THEN IF AttemptsRemain(attempt, retries)
       THEN Continue(e, Delay(attempt))
       ELSE [Raise(VeloceAPIError(<<"HTTP request failed: ">> \o Str(e))) EXCEPT !.last = e]
  ELSE Raise(e)

\* The except clauses, in their order, for an exception e raised in the try.
HandleException(e, attempt, retries) ==
  IF e.kind \in NonRetryableKinds THEN Raise(e)
  ELSE IF e.kind = "VeloceServerError" THEN Raise(e)
  ELSE IF e.kind \in TransportKinds
  THEN IF AttemptsRemain(attempt, retries)
       THEN Continue(e, Delay(attempt))
       ELSE [Raise(VeloceAPIError(<<"HTTP request failed: ">> \o Str(e))) EXCEPT !.last = e]
  ELSE Raise(VeloceAPIError(<<"Request failed: ">> \o Str(e)))

\* One iteration of the loop, from the response (or fault) to what the
\* iteration does: return, raise, or sleep and continue.
Iteration(outcome, attempt, retries) ==
  LET r == TryBody(outcome, attempt, retries)
  IN IF r.ctl = "raise" THEN HandleException(r.exc, attempt, retries) ELSE r

\* After the loop.
Fallback(retries, last_exception) ==
  IF last_exception # NoExc
  THEN VeloceAPIError(<<"Request failed after ", ToString(retries), " attempts: ">> \o Str(last_exception))
  ELSE VeloceAPIError(<<"Request failed after ", ToString(retries), " attempts">>)

\* session.request on a closed session raises RuntimeError, which the last
\* except clause wraps.
SessionClosedError == Exc("RuntimeError", <<"Session is closed">>, None, NoResponse)

\* Mutant: an AuthError taken for any other API error.
HealthCheckAuthUnhealthy(r) == r.kind = "ok"

\* health_check's try/except around the probe: what it returns for what
\* _request returned or raised.
HealthCheck(r) ==
  IF r.kind = "ok" THEN TRUE
  ELSE IF r.kind = "VeloceAuthError" THEN TRUE
  ELSE IF r.kind \in VeloceKinds THEN FALSE
  ELSE FALSE

\* ------------------------------------------------------------ state
VARIABLES
  base_url,       \* self.base_url
  timeout,        \* self.timeout: the total of the ClientTimeout, in seconds
  max_retries,    \* self.max_retries
  api_key,        \* self.api_key
  session,        \* self._session: None or the id of a session
  owns_session,   \* self._owns_session
  closed,         \* closed[s]: session s has been closed (s <= created)
  created,        \* how many sessions the client has created so far
  calls,          \* how many operations have been started
  task            \* what each task is doing

config == <<base_url, timeout, max_retries, api_key>>
client == <<session, owns_session, closed, created>>
vars == <<base_url, timeout, max_retries, api_key, session, owns_session, closed, created, calls, task>>

IdleTask ==
  [ pc |-> "idle",            \* idle, inflight, sleep, closing, done
    op |-> "none",            \* request, health, close, enter, exit
    prev |-> "none",          \* history: the operation this task ran before
    retry |-> FALSE,          \* _request's retry argument
    sess |-> None,            \* _request's local: session
    headers |-> {},           \* _request's local: headers
    wire |-> {},              \* history: the headers of the latest request sent
    exc |-> NoExc,            \* __aexit__'s exc_val: the error leaving the block
    retries |-> 0,            \* _request's local: retries
    attempt |-> 0,            \* the loop variable
    last_exception |-> NoExc, \* _request's local: last_exception
    sends |-> 0,              \* requests put on the wire by this call
    delays |-> <<>>,          \* the sleeps of this call, in order
    result |-> NoExc,         \* what _request returned or raised
    health |-> "none",        \* what health_check returned
    seen |-> NoOutcome,       \* history: the outcome of the latest attempt
    n5xx |-> 0,               \* history: attempts answered with a status >= 500
    nfault |-> 0,             \* history: attempts the transport failed
    scope |-> FALSE ]         \* the task is inside "async with client"

InitClient ==
  /\ base_url = "https://panel.example/api"
  /\ timeout = 30
  /\ session = None
  /\ owns_session = TRUE
  /\ closed = [s \in SessionIds |-> FALSE]
  /\ created = 0
  /\ calls = 0
  /\ task = [t \in Tasks |-> IdleTask]

Init == max_retries \in RetryChoices /\ api_key = "key-A" /\ InitClient

InitConc == max_retries \in 0..ConcRetries /\ api_key = "key-A" /\ InitClient

InitLife == max_retries \in 0..ConcRetries /\ api_key \in ApiKeys /\ InitClient

\* ------------------------------------------------------------ session lifecycle
\* Mutant: the test on closed inverted.
SessionAbsentInverted == session = None \/ ~closed[session]

\* if self._session is None or self._session.closed
SessionAbsent == session = None \/ closed[session]

\* _ensure_session: the session it returns.
EnsureSession == IF SessionAbsent THEN created + 1 ELSE session

\* _ensure_session's effect on the client. It has no await that suspends, so
\* it is one step with whatever calls it.
Ensure ==
  /\ SessionAbsent => created < MaxSessions
  /\ session' = EnsureSession
  /\ created' = IF SessionAbsent THEN created + 1 ELSE created
  /\ owns_session' = IF SessionAbsent THEN TRUE ELSE owns_session
  /\ UNCHANGED closed

\* close's guard: if self._session and not self._session.closed and self._owns_session
CloseGuard == session # None /\ ~closed[session] /\ owns_session

\* Task t, whose previous operation (if any) is over, starts another one.
Start(t, cap) == task[t].pc \in {"idle", "done"} /\ calls < cap /\ calls' = calls + 1

\* The locals of the operation task t starts.
Fresh(t, op) == [IdleTask EXCEPT !.op = op, !.prev = task[t].op, !.scope = task[t].scope]

\* The operation of task t is over: _request's outcome r, and for
\* health_check what it makes of it.
Finished(tk, r) ==
  [tk EXCEPT !.pc = "done", !.result = r,
             !.health = IF tk.op = "health"
                        THEN (IF HealthCheck(r) THEN "true" ELSE "false")
                        ELSE "none"]

\* _request up to its first suspension: the session is ensured, retries is
\* computed, and either the loop body never runs (retries < 1) and the
\* fallback raises, or the first request goes out.
BeginRequest(t, op, retry, cap) ==
  /\ Start(t, cap)
  /\ Ensure
  /\ LET retries == Retries(retry, max_retries)
         tk == [Fresh(t, op) EXCEPT !.retry = retry, !.sess = EnsureSession,
                               !.headers = GetHeaders(api_key),
                               !.retries = retries, !.attempt = 0,
                               !.last_exception = NoExc]
     IN task' = [task EXCEPT ![t] =
                   IF 0 < retries
                   THEN [tk EXCEPT !.pc = "inflight", !.sends = 1, !.wire = tk.headers]
                   ELSE Finished(tk, Fallback(retries, NoExc))]
  /\ UNCHANGED config

\* client._request(method, endpoint, ..., retry)
Execute(t, retry, cap) == BeginRequest(t, "request", retry, cap)

\* client.health_check(): _request("GET", "/admin") with retry left at True
HealthProbe(t, cap) == BeginRequest(t, "health", TRUE, cap)

\* Mutant: an iteration that drops the session when it raises.
RespondDroppingSession(t, outcome) ==
  /\ task[t].pc = "inflight"
  /\ LET tk == task[t]
         r == Iteration(outcome, tk.attempt, tk.retries)
         tl == [tk EXCEPT !.last_exception = IF r.last # NoExc THEN r.last ELSE @,
                          !.seen = outcome,
                          !.n5xx = IF outcome.type = "response" /\ outcome.status >= 500
                                   THEN @ + 1 ELSE @,
                          !.nfault = IF outcome.type = "fault" THEN @ + 1 ELSE @]
     IN /\ task' = [task EXCEPT ![t] =
                      IF r.ctl = "continue"
                      THEN [tl EXCEPT !.pc = "sleep", !.delays = Append(@, r.delay)]
                      ELSE Finished(tl, r.exc)]
        /\ session' = IF r.ctl = "raise" THEN None ELSE session
  /\ UNCHANGED <<config, owns_session, closed, created, calls>>

\* The response (or the transport's fault) of the request in flight arrives:
\* the rest of this iteration of the loop.
Respond(t, outcome) ==
  /\ task[t].pc = "inflight"
  /\ LET tk == task[t]
         r == Iteration(outcome, tk.attempt, tk.retries)
         tl == [tk EXCEPT !.last_exception = IF r.last # NoExc THEN r.last ELSE @,
                          !.seen = outcome,
                          !.n5xx = IF outcome.type = "response" /\ outcome.status >= 500
                                   THEN @ + 1 ELSE @,
                          !.nfault = IF outcome.type = "fault" THEN @ + 1 ELSE @]
     IN task' = [task EXCEPT ![t] =
                   IF r.ctl = "continue"
                   THEN [tl EXCEPT !.pc = "sleep", !.delays = Append(@, r.delay)]
                   ELSE Finished(tl, r.exc)]
  /\ UNCHANGED <<config, client, calls>>

\* asyncio.sleep(delay) is over: continue, the next iteration sends on the
\* session captured before the loop; a closed session refuses the request.
Wake(t) ==
  /\ task[t].pc = "sleep"
  /\ LET tk == [task[t] EXCEPT !.attempt = @ + 1]
     IN task' = [task EXCEPT ![t] =
                   IF tk.attempt >= tk.retries
                   THEN Finished(tk, Fallback(tk.retries, tk.last_exception))
                   ELSE IF closed[tk.sess]
                   THEN Finished(tk, HandleException(SessionClosedError, tk.attempt, tk.retries).exc)
                   ELSE [tk EXCEPT !.pc = "inflight", !.sends = @ + 1, !.wire = tk.headers]]
  /\ UNCHANGED <<config, client, calls>>

\* Mutant: __aexit__ returning a true value, which swallows the error.
AExitSwallows == TRUE

\* __aexit__ has no return statement: it returns None, which is falsy.
AExitReturnsTrue == FALSE

\* What the async with statement raises once __aexit__ has returned, for the
\* error exc that left its block (NoExc: the block ended normally).
AfterExit(exc) == IF AExitReturnsTrue THEN NoExc ELSE exc

\* close() is over. For __aexit__ the error that left the block goes on.
Closed(tk) ==
  [tk EXCEPT !.pc = "done", !.result = IF tk.op = "exit" THEN AfterExit(tk.exc) ELSE NoExc]

\* close() up to its suspension: the guard, and the session starts closing
\* (aiohttp marks it closed before it waits for the connections); or the
\* guard fails and close returns.
BeginClose(t, op, exc, cap) ==
  /\ Start(t, cap)
  /\ LET tk == [Fresh(t, op) EXCEPT !.exc = exc, !.scope = FALSE]
     IN IF CloseGuard
        THEN /\ closed' = [closed EXCEPT ![session] = TRUE]
             /\ task' = [task EXCEPT ![t] = [tk EXCEPT !.pc = "closing", !.sess = session]]
        ELSE /\ closed' = closed
             /\ task' = [task EXCEPT ![t] = Closed(tk)]
  /\ UNCHANGED <<config, session, owns_session, created>>

\* Mutant: close() without the assignment self._session = None.
EndCloseKeepingReference(t) ==
  /\ task[t].pc = "closing"
  /\ task' = [task EXCEPT ![t] = Closed(task[t])]
  /\ UNCHANGED <<config, session, owns_session, closed, created, calls>>

\* await self._session.close() is over: self._session = None
EndClose(t) ==
  /\ task[t].pc = "closing"
  /\ session' = None
  /\ task' = [task EXCEPT ![t] = Closed(task[t])]
  /\ UNCHANGED <<config, owns_session, closed, created, calls>>

\* await client.close()
Close(t, cap) == ~task[t].scope /\ BeginClose(t, "close", NoExc, cap)

\* async with client: __aenter__
Enter(t, cap) ==
  /\ ~task[t].scope
  /\ Start(t, cap)
  /\ Ensure
  /\ task' = [task EXCEPT ![t] = [Fresh(t, "enter") EXCEPT !.pc = "done", !.scope = TRUE]]
  /\ UNCHANGED config

\* The errors that can leave the block of task t now: none (the block ends
\* normally), or the error its latest call has raised.
BlockErrors(t) ==
  {NoExc} \cup (IF task[t].op \in {"request", "health"} /\ task[t].pc = "done"
                   /\ task[t].result.kind \notin {"ok", "none"}
                THEN {task[t].result} ELSE {})

\* the end of the async with block: __aexit__(exc_type, exc_val, exc_tb)
Exit(t, cap) ==
  /\ task[t].scope
  /\ \E e \in BlockErrors(t) : BeginClose(t, "exit", e, cap)

Next ==
  \E t \in SeqTasks :
    \/ \E retry \in BOOLEAN : Execute(t, retry, MaxCalls)
    \/ HealthProbe(t, MaxCalls)
    \/ \E o \in Outcomes : Respond(t, o)
    \/ Wake(t)
    \/ Close(t, MaxCalls)
    \/ EndClose(t)
    \/ Enter(t, MaxCalls)
    \/ Exit(t, MaxCalls)

Spec == Init /\ [][Next]_vars

NextConc ==
  \E t \in Tasks :
    \/ Execute(t, TRUE, ConcCalls)
    \/ \E o \in ConcOutcomes : Respond(t, o)
    \/ Wake(t)
    \/ Close(t, ConcCalls)
    \/ EndClose(t)
    \/ Enter(t, ConcCalls)
    \/ Exit(t, ConcCalls)

SpecConc == InitConc /\ [][NextConc]_vars

\* One caller through the whole lifecycle: scopes, calls and closes one after
\* another. Every request in flight is answered and every sleep ends.
NextLife ==
  \E t \in SeqTasks :
    \/ \E retry \in BOOLEAN : Execute(t, retry, LifeCalls)
    \/ \E o \in LifeOutcomes : Respond(t, o)
    \/ Wake(t)
    \/ Close(t, LifeCalls)
    \/ EndClose(t)
    \/ Enter(t, LifeCalls)
    \/ Exit(t, LifeCalls)

SpecLife ==
  /\ InitLife
  /\ [][NextLife]_vars
  /\ \A t \in SeqTasks :
       /\ WF_vars(\E o \in LifeOutcomes : Respond(t, o))
       /\ WF_vars(Wake(t))
       /\ WF_vars(EndClose(t))

\* ------------------------------------------------------------ claims
\* The calls of _request: execute itself and health_check's probe.
IsCall(tk) == tk.op \in {"request", "health"}

\* The decoded body the caller is to see for a body on the wire: its JSON
\* value, or the empty mapping when it cannot be read as JSON.
Decoded(body) == IF body.wire = "json" THEN body.value ELSE EmptyMap

Answered(tk, statuses) == tk.seen.type = "response" /\ tk.seen.status \in statuses

FirstAttemptOnly(tk) == tk.pc = "done" /\ tk.sends = 1 /\ tk.delays = <<>>

\* C1: a retryable call on a client with max_retries = N never sends more
\* than N requests and never fails with ServerError before the N-th; when
\* every attempt was answered with a status >= 500, the finished call has sent
\* exactly N requests and has failed with ServerError carrying the status and
\* the decoded body of the last response.
C1_ServerErrorAfterAllAttempts ==
  \A t \in Tasks :
    LET tk == task[t]
    IN (IsCall(tk) /\ tk.retry) =>
         /\ tk.sends <= max_retries
         /\ tk.result.kind = "VeloceServerError" => tk.sends = max_retries
         /\ (tk.pc = "done" /\ tk.nfault = 0 /\ tk.n5xx = tk.sends) =>
              /\ tk.sends = max_retries
              /\ tk.sends >= 1 =>
                   tk.result = Exc("VeloceServerError", <<"Server error">>,
                                   tk.seen.status, Decoded(tk.seen.body))

C1_Witness ==
  \E t \in Tasks :
    /\ task[t].pc = "done" /\ task[t].op = "request" /\ task[t].retry
    /\ max_retries = 3 /\ task[t].sends = 3 /\ task[t].n5xx = 3
    /\ task[t].result.kind = "VeloceServerError"
    /\ task[t].result.status_code = 503
    /\ task[t].result.response = DetailMap

\* C2: a 401 or a 403 on the first attempt ends the call at once with
\* AuthError carrying that status and the decoded body, after one request and
\* no sleep, whatever max_retries and the retry flag are.
C2_AuthErrorOnFirstAttempt ==
  \A t \in Tasks :
    LET tk == task[t]
    IN (IsCall(tk) /\ Answered(tk, {401, 403}) /\ tk.attempt = 0) =>
         /\ FirstAttemptOnly(tk)
         /\ tk.result.kind = "VeloceAuthError"
         /\ tk.result.status_code = tk.seen.status
         /\ tk.result.response = Decoded(tk.seen.body)

C2_Witness ==
  \E t \in Tasks :
    /\ task[t].pc = "done" /\ task[t].op = "request" /\ ~task[t].retry
    /\ max_retries = MaxRetries
    /\ Answered(task[t], {403}) /\ task[t].seen.body.wire = "json"
    /\ task[t].result = Exc("VeloceAuthError", <<"Permission denied">>, 403, PlainMap)

\* The error kind the classification table gives a non-retryable status.
TableKind(status) ==
  CASE status \in {401, 403} -> "VeloceAuthError"
    [] status = 404 -> "VeloceNotFoundError"
    [] status = 409 -> "VeloceConflictError"
    [] status \in {400, 422} -> "VeloceValidationError"
    [] status >= 500 -> "VeloceServerError"
    [] OTHER -> "ok"

\* C3: a 404, 409, 400 or 422 on the first attempt, whatever the body is (a
\* mapping with or without detail, a JSON value that is no mapping, a body
\* that does not decode), ends the call at once with the matching kind and
\* that status, after one request and no sleep.
C3_NonRetryableStatusFailsWithItsKind ==
  \A t \in Tasks :
    LET tk == task[t]
    IN (IsCall(tk) /\ Answered(tk, {404, 409, 400, 422}) /\ tk.attempt = 0) =>
         /\ FirstAttemptOnly(tk)
         /\ tk.result.kind = TableKind(tk.seen.status)
         /\ tk.result.status_code = tk.seen.status

\* The latest attempt ended in a fault of the transport: the request raised
\* it, or the connection failed while the body was read.
TransportFaulted(tk) ==
  \/ tk.seen.type = "fault"
  \/ tk.seen.type = "response" /\ tk.seen.body.wire = "read_fault"

\* C4: when the transport raises a connectivity or timeout fault on attempt
\* i of a retryable call, then with i < retries - 1 the fault is recorded and
\* the call sleeps before sending again, and with i = retries - 1 the call
\* fails with the generic API error, without a status code, whose message
\* holds the message of this last fault.
C4_TransportFaultRetriedThenWrapped ==
  \A t \in Tasks :
    LET tk == task[t]
    IN (IsCall(tk) /\ tk.retry /\ tk.pc \in {"sleep", "done"} /\ TransportFaulted(tk)) =>
         IF tk.attempt < tk.retries - 1
         THEN /\ tk.pc = "sleep"
              /\ tk.last_exception.kind \in TransportKinds \cup {"ClientPayloadError"}
              /\ tk.seen.type = "fault" => tk.last_exception = tk.seen.exc
         ELSE /\ tk.pc = "done"
              /\ tk.result.kind = "VeloceAPIError"
              /\ tk.result.status_code = None
              /\ tk.seen.type = "fault" =>
                   tk.result.message = <<"HTTP request failed: ">> \o tk.seen.exc.message

SuccessStatuses == {s \in Statuses : s < 500 /\ s \notin {400, 401, 403, 404, 409, 422}}

\* C6: a status below 500 that the table does not classify ends the call
\* with the pair (status, decoded body) of the attempt that received it: no
\* request and no sleep follows it.
C6_UnclassifiedStatusIsReturned ==
  \A t \in Tasks :
    LET tk == task[t]
    IN (IsCall(tk) /\ Answered(tk, SuccessStatuses)) =>
         /\ tk.pc = "done"
         /\ tk.result = Exc("ok", <<>>, tk.seen.status, Decoded(tk.seen.body))
         /\ tk.sends = tk.attempt + 1
         /\ Len(tk.delays) = tk.attempt

C6_Witness ==
  \E t \in Tasks :
    /\ task[t].pc = "done" /\ task[t].op = "request"
    /\ task[t].seen = Response(200, [wire |-> "json", value |-> PlainMap])
    /\ task[t].result = Exc("ok", <<>>, 200, PlainMap)
    /\ task[t].sends = 1 /\ task[t].delays = <<>>

\* C7: a body that does not decode as JSON (wrong content type, malformed)
\* is read as the empty mapping and the attempt is classified by its status
\* alone: the call ends as the table says for that status, with an empty
\* response body, and it sleeps for another attempt only on a status >= 500
\* with budget left.
C7_UndecodableBodyIsEmptyMapping ==
  \A t \in Tasks :
    LET tk == task[t]
    IN (IsCall(tk) /\ tk.seen.type = "response" /\ tk.pc \in {"sleep", "done"}
          /\ tk.seen.body.wire \in {"content_type", "malformed"}) =>
         /\ tk.pc = "sleep" <=> (tk.seen.status >= 500 /\ tk.attempt < tk.retries - 1)
         /\ tk.pc = "sleep" =>
              tk.last_exception = Exc("VeloceServerError", <<"Server error">>, tk.seen.status, EmptyMap)
         /\ tk.pc = "done" =>
              /\ tk.result.kind = TableKind(tk.seen.status)
              /\ tk.result.status_code = tk.seen.status
              /\ tk.result.response = EmptyMap

C7_Witness ==
  \E t \in Tasks :
    /\ task[t].pc = "done" /\ task[t].op = "request"
    /\ task[t].seen = Response(200, [wire |-> "content_type", value |-> PlainMap])
    /\ task[t].result = Exc("ok", <<>>, 200, EmptyMap)

\* min(2^i, 60), written out: 2^6 = 64 is the first power above the ceiling.
Backoff(i) == IF i < 6 THEN 2 ^ i ELSE 60

\* C8: the sleeps of a call are, in order, min(2^0, 60), min(2^1, 60), ...:
\* one after each attempt that ended in a status >= 500 or in a transport
\* fault with budget left, none before the first attempt and none after the
\* last attempt of the budget.
C8_BackoffDelays ==
  \A t \in Tasks :
    LET tk == task[t]
    IN IsCall(tk) =>
         /\ \A i \in 1..Len(tk.delays) : tk.delays[i] = Backoff(i - 1)
         /\ Len(tk.delays) = IF tk.pc = "sleep" THEN tk.attempt + 1 ELSE tk.attempt
         /\ tk.sends = 0 => tk.delays = <<>>
         /\ tk.retries >= 1 => Len(tk.delays) <= tk.retries - 1
         /\ tk.pc = "sleep" =>
              (tk.seen.type = "fault" \/ Answered(tk, {s \in Statuses : s >= 500}))

C8_Witness ==
  \E t \in Tasks :
    /\ task[t].pc = "sleep"
    /\ task[t].delays = <<1, 2, 4, 8, 16, 32, 60>>
    /\ task[t].nfault > 0 /\ task[t].n5xx > 0

\* C9: health_check returns a boolean for every end of its probe (the call
\* _request("GET", "/admin") with the client's retry budget): true exactly
\* when the probe returned a pair or raised AuthError, that is when its last
\* attempt was answered with a status the table returns or with 401 or 403.
C9_HealthCheckIsTrueOnSuccessOrAuth ==
  \A t \in Tasks :
    LET tk == task[t]
    IN (tk.op = "health" /\ tk.pc = "done") =>
         /\ tk.retry /\ tk.retries = max_retries
         /\ tk.health \in {"true", "false"}
         /\ tk.health = "true" <=> tk.result.kind \in {"ok", "VeloceAuthError"}
         /\ tk.health = "true" <=> Answered(tk, SuccessStatuses \cup {401, 403})

C9_Witness ==
  \E t \in Tasks :
    /\ task[t].op = "health" /\ task[t].pc = "done"
    /\ task[t].result.kind = "VeloceAuthError"
    /\ task[t].health = "true"
    /\ task[t].sends = 1

\* The sessions the client has created and that are not closed.
OpenSessions == {s \in 1..created : ~closed[s]}

\* C10: at most one session created by the client is open.
C10_AtMostOneOpenSession == Cardinality(OpenSessions) <= 1

\* C11: while no session of the client has been closed, the calls started
\* concurrently have created one session between them, and each of them
\* sends on that session, which is the one the client refers to.
C11_ConcurrentFirstUseCreatesOneSession ==
  (\A s \in SessionIds : ~closed[s]) =>
    /\ created <= 1
    /\ \A t \in Tasks :
         IsCall(task[t]) => (created = 1 /\ session = 1 /\ task[t].sess = 1)

C11_Witness ==
  /\ created = 1
  /\ \A t \in Tasks :
       task[t].op = "request" /\ task[t].prev = "none" /\ task[t].pc = "inflight"
         /\ task[t].sess = 1 /\ task[t].sends = 1

\* C12: entering the scope leaves the client with an open session; once the
\* scope is left, by the end of its block or by an error, the session that
\* was open is closed and the client holds none, the error (if any) is
\* raised to the caller, and a call issued next runs on a session that is
\* open, hence created anew.
C12_ScopeClosesSessionOnEveryExit ==
  \A t \in SeqTasks :
    LET tk == task[t]
    IN /\ (tk.op = "enter" /\ tk.pc = "done") =>
            (tk.scope /\ session # None /\ ~closed[session])
       /\ (tk.op = "exit" /\ tk.pc = "done") =>
            /\ ~tk.scope
            /\ tk.sess # None /\ closed[tk.sess]
            /\ session = None /\ OpenSessions = {}
            /\ tk.result = tk.exc
       /\ (IsCall(tk) /\ tk.prev = "exit") =>
            /\ tk.sess = session /\ ~closed[tk.sess]
            /\ tk.sess = created
            /\ tk.retries >= 1 => tk.sends >= 1

C12_Witness ==
  \E t \in SeqTasks :
    /\ task[t].op = "exit" /\ task[t].pc = "done"
    /\ task[t].exc.kind = "VeloceAuthError"
    /\ task[t].result.kind = "VeloceAuthError"
    /\ closed[task[t].sess] /\ session = None

\* C13: close() raises nothing and leaves the client without a session; a
\* close() on a client that has no session, and a close() that follows
\* another, return at once and close nothing; a call issued after a close
\* runs on a session created anew.
C13_CloseIsIdempotent ==
  \A t \in SeqTasks :
    LET tk == task[t]
    IN /\ tk.op = "close" => tk.result = NoExc
       /\ (tk.op = "close" /\ tk.pc = "done") => (session = None /\ OpenSessions = {})
       /\ (tk.op = "close" /\ (tk.prev = "close" \/ created = 0)) =>
            (tk.pc = "done" /\ tk.sess = None)
       /\ (IsCall(tk) /\ tk.prev = "close") =>
            /\ tk.sess = session /\ ~closed[tk.sess]
            /\ tk.sess = created
            /\ tk.retries >= 1 => tk.sends >= 1

C13_Witness ==
  \E t \in SeqTasks :
    /\ task[t].op = "close" /\ task[t].prev = "close" /\ task[t].pc = "done"
    /\ created = 1 /\ closed[1] /\ session = None

\* What a call may end with: the returned pair or an error of the taxonomy.
TypedEnds == {"ok"} \cup VeloceKinds

C14_WithinBudgetAndTyped ==
  \A t \in SeqTasks :
    LET tk == task[t]
    IN IsCall(tk) =>
         /\ tk.sends <= tk.retries
         /\ tk.pc \in {"inflight", "sleep"} => (tk.attempt < tk.retries /\ tk.result = NoExc)
         /\ tk.pc = "done" => tk.result.kind \in TypedEnds

C14_Terminates ==
  \A t \in SeqTasks :
    (IsCall(task[t]) /\ task[t].pc \in {"inflight", "sleep"}) ~> (task[t].pc = "done")

\* C14: provided every request in flight is answered and every sleep ends,
\* every call of _request ends; it ends with the returned pair or with one
\* error of the taxonomy, after at most retries requests, and while it runs
\* its attempt number stays below retries.
C14_EveryCallEndsTyped == [](C14_WithinBudgetAndTyped) /\ C14_Terminates

C14_Witness ==
  \E t \in SeqTasks :
    /\ task[t].op = "request" /\ task[t].pc = "done" /\ task[t].retry
    /\ task[t].retries = 2 /\ task[t].sends = 2 /\ task[t].nfault = 1
    /\ task[t].seen.type = "response" /\ task[t].seen.status = 400
    /\ task[t].result = VeloceAPIError(<<"Request failed: ">> \o AttributeError.message)

\* C15: every request a call sends carries exactly the two headers X-API-Key,
\* with the key the client was constructed with, and Content-Type:
\* application/json, on the first attempt and on every retry.
C15_EveryRequestCarriesKeyAndContentType ==
  \A t \in SeqTasks :
    LET tk == task[t]
    IN (IsCall(tk) /\ tk.sends >= 1) =>
         /\ tk.wire = {<<"X-API-Key", api_key>>, <<"Content-Type", "application/json">>}
         /\ tk.headers = tk.wire

C15_Witness ==
  \E t \in SeqTasks :
    /\ api_key = "key-B" /\ task[t].op = "request" /\ task[t].pc = "inflight"
    /\ task[t].sends = 2 /\ task[t].attempt = 1
    /\ task[t].wire = {<<"X-API-Key", "key-B">>, <<"Content-Type", "application/json">>}

\* C16: a call answered 400 or 422 whose body is a JSON mapping or cannot be
\* decoded fails with ValidationError; its message is the body's detail field
\* when the mapping has one and "Validation error" otherwise, its status is the
\* status of the response and its response the decoded body.
C16_ValidationMessageFromDetail ==
  \A t \in Tasks :
    LET tk == task[t]
        data == Decoded(tk.seen.body)
    IN (IsCall(tk) /\ Answered(tk, {400, 422}) /\ data.type = "map") =>
         /\ tk.result.kind = "VeloceValidationError"
         /\ tk.result.status_code = tk.seen.status
         /\ tk.result.response = data
         /\ tk.result.message =
              IF \E p \in data.items : p[1] = "detail"
              THEN <<(CHOOSE p \in data.items : p[1] = "detail")[2]>>
              ELSE <<"Validation error">>

C16_Witness ==
  \E t \in Tasks :
    /\ task[t].pc = "done" /\ task[t].op = "request"
    /\ task[t].seen.type = "response" /\ task[t].seen.status = 422
    /\ task[t].seen.body = [wire |-> "json", value |-> DetailMap]
    /\ task[t].result = Exc("VeloceValidationError", <<"name too long">>, 422, DetailMap)

\* The default message is reached too: a 400 whose body is no JSON.
C16_DefaultWitness ==
  \E t \in Tasks :
    /\ task[t].pc = "done" /\ task[t].op = "request"
    /\ task[t].seen.type = "response" /\ task[t].seen.status = 400
    /\ task[t].seen.body.wire = "malformed"
    /\ task[t].result = Exc("VeloceValidationError", <<"Validation error">>, 400, EmptyMap)

\* C17: every finished call got its result inside an attempt: it has sent at
\* least one request, and its result is not the error raised after the loop
\* ("Request failed after N attempts"), whatever max_retries and the retry
\* flag are.
C17_LoopNeverFallsThrough ==
  \A t \in Tasks :
    LET tk == task[t]
    IN (IsCall(tk) /\ tk.pc = "done") =>
         /\ tk.sends >= 1
         /\ tk.result # Fallback(tk.retries, tk.last_exception)
         /\ Len(tk.result.message) > 0 => tk.result.message[1] # "Request failed after "

\* An attempt's outcome that is transient: a status >= 500 or a fault of the
\* transport.
Transient(tk) == TransportFaulted(tk) \/ Answered(tk, {s \in Statuses : s >= 500})

\* C18: in a retryable call on a client with max_retries = N >= 1, server
\* errors and transport faults use one budget: the call sleeps only after a
\* transient outcome, all its earlier outcomes were transient, it ends at the
\* first outcome that is not transient or at the N-th request, and its result
\* is what the last outcome alone gives on a single attempt.
C18_SharedBudgetAndLastSendDecides ==
  \A t \in Tasks :
    LET tk == task[t]
    IN (IsCall(tk) /\ tk.retry /\ max_retries >= 1) =>
         /\ tk.sends <= max_retries
         /\ tk.pc = "inflight" => tk.n5xx + tk.nfault = tk.sends - 1
         /\ tk.pc = "sleep" =>
              /\ Transient(tk)
              /\ tk.n5xx + tk.nfault = tk.sends
              /\ tk.sends < max_retries
         /\ tk.pc = "done" =>
              /\ IF Transient(tk)
                 THEN tk.sends = max_retries
                 ELSE tk.n5xx + tk.nfault = tk.sends - 1
              /\ tk.result = Iteration(tk.seen, 0, 1).exc

\* C19: no call ends because a request was refused by a closed session: a
\* call that wakes from its backoff sleep after another task closed the
\* client goes on with its remaining attempts on a live session, so it never
\* fails with the wrapped "Session is closed" error.
C19_NoAttemptOnClosedSession ==
  \A t \in Tasks :
    LET tk == task[t]
    IN (IsCall(tk) /\ tk.pc = "done") =>
         tk.result # VeloceAPIError(<<"Request failed: ">> \o Str(SessionClosedError))

\* A close (or the exit of a scope) completes in this step and leaves no
\* operation of any task running.
LastCloseCompletes ==
  /\ \E t \in Tasks :
       /\ task'[t] # task[t]
       /\ task'[t].op \in {"close", "exit"}
       /\ task'[t].pc = "done"
  /\ \A t \in Tasks : task'[t].pc \in {"idle", "done"}

\* C20: whenever a close completes and no operation is left running, every
\* session the client has created is closed and the client refers to none;
\* a session created while the close was suspended is not left open.
C20_NoSessionLeaks ==
  [][LastCloseCompletes => (session' = None /\ \A s \in 1..created' : closed'[s])]_vars

\* The one caller t takes a step of a call (execute or the health check) in
\* this step: the step changes something and t is in a call after it. A call
\* that repeats the previous one with the same end leaves t's record as it
\* was and shows in calls alone.
CallStep(t) == vars' # vars /\ task'[t].op \in {"request", "health"}

\* C21: a step of a call leaves base URL, timeout, API key and max_retries as
\* they are and closes no session; its first step ensures the session (it
\* keeps an open one, and creates one only when there is none or it is
\* closed) and every later step, whatever the call ends with, leaves the
\* client's session reference alone. A call that follows another call with no
\* close in between therefore runs on the same session.
C21_CallsChangeNoClientState ==
  [][\A t \in SeqTasks :
       CallStep(t) =>
         /\ base_url' = base_url /\ timeout' = timeout
         /\ api_key' = api_key /\ max_retries' = max_retries
         /\ closed' = closed /\ owns_session' = owns_session
         /\ IF task[t].pc \in {"idle", "done"}
            THEN /\ task'[t].sess = session' /\ session' # None /\ ~closed[session']
                 /\ (session # None /\ ~closed[session]) =>
                      (session' = session /\ created' = created)
                 /\ (session = None \/ closed[session]) =>
                      (session' = created + 1 /\ created' = created + 1)
                 /\ (task[t].pc = "done" /\ task[t].op \in {"request", "health"}) =>
                      (task'[t].sess = task[t].sess /\ created' = created)
            ELSE /\ session' = session /\ created' = created
                 /\ task'[t].sess = task[t].sess]_vars

C21_Witness ==
  \E t \in SeqTasks :
    /\ task[t].op = "health" /\ task[t].prev = "request" /\ task[t].pc = "done"
    /\ task[t].result.kind = "VeloceServerError" /\ task[t].sends = 3
    /\ created = 1 /\ session = 1 /\ task[t].sess = 1 /\ ~closed[1]
    /\ calls = 2

====
